---- MODULE Spec2Model ----
(***************************************************************************)
(* A model of SocketAsync (src/SocketAsync.js): a net.Socket subclass that *)
(* keeps a receive buffer, turns the stream's notifications into promises  *)
(* (connectAsync, readAsync, readAndClearAsync) and negotiates SOCKS5 and  *)
(* HTTP CONNECT proxies on top of them.                                    *)
(*                                                                         *)
(* JavaScript runs every handler to completion and drains the microtask    *)
(* queue (the continuations of settled promises) before the next stream    *)
(* notification is dispatched.  A notification is one action (all the      *)
(* listeners of the event, in registration order); the continuation of an  *)
(* await is one action (a Resume... action).                               *)
(***************************************************************************)
EXTENDS Integers, Sequences, FiniteSets, TLC

\* ------------------------------------------------------------------ bounds

MaxCalls == 2
MaxEvents == 2

\* ----------------------------------------------------------------- values

\* socket.timeout before any setTimeout: undefined (line 140's comment)
Undefined == -1

\* A message is a sequence of tokens: literal text, or bytes/numbers
\* interpolated into a template string.
Txt(s) == [s |-> s, b |-> <<>>]
Raw(b) == [s |-> "", b |-> b]

Err(name, message) == [name |-> name, message |-> message]
\* this.error = null
NoError == Err("", <<>>)
JsError(text) == Err("Error", <<Txt(text)>>)

\* Error.prototype.toString, which new Error(e) applies to a non-string e
ErrorToString(e) ==
  IF e.message = <<>> THEN <<Txt(e.name)>>
  ELSE IF e.name = "" THEN e.message
  ELSE <<Txt(e.name), Txt(": ")>> \o e.message

\* (C1's mutant: new ProxyError(e.name))
ProxyErrorOfName(e) == Err("ProxyError", <<Txt(e.name)>>)
\* new ProxyError(e) (lines 22-27, 326)
ProxyError(e) == Err("ProxyError", ErrorToString(e))

Min(a, b) == IF a < b THEN a ELSE b
Max(a, b) == IF a > b THEN a ELSE b

\* ---------------------------------------------------------- receive buffer

\* Buffer.prototype.subarray(start, end): negative indices count from the
\* end, both are clamped to the length, an inverted range is empty.
ClampIndex(i, len) == IF i < 0 THEN Max(len + i, 0) ELSE Min(i, len)

Subarray(buf, start, end) ==
  LET s == ClampIndex(start, Len(buf))
      e == ClampIndex(end, Len(buf))
  IN IF e <= s THEN <<>> ELSE SubSeq(buf, s + 1, e)

\* (C9's mutant: the rest is taken from end + 1)
SpliceChunksSkipsOne(buf, start, end) ==
  [ret |-> Subarray(buf, start, end),
   chunks |-> Subarray(buf, 0, start) \o Subarray(buf, end + 1, Len(buf))]

\* spliceChunks(start = 0, end = this.chunks.length)
SpliceChunks(buf, start, end) ==
  [ret |-> Subarray(buf, start, end),
   chunks |-> Subarray(buf, 0, start) \o Subarray(buf, end, Len(buf))]

\* ---------------------------------------------------------------- socket
\* The socket as the handlers see it, threaded through the listeners of one
\* notification:
\*   chunks     this.chunks
\*   error      this.error
\*   timeout    this.timeout, the idle timeout last set with setTimeout
\*   destroyed  this.destroy() was called
\*   listeners  the registered listeners, in registration order
\*   op         the promise of the readAsync / _connectWithoutProxyAsync in flight
\*   late       handler calls made for a promise that was no longer pending

\* A listener: the event, the handler, whether it was registered with once(),
\* and what the handler's closure holds: the promise it settles (owner, 0 for
\* the constructor's own), oldTimeout and the read's callback.
Listener(ev, fn, once, owner, old, cb) ==
  [ev |-> ev, fn |-> fn, once |-> once, owner |-> owner, old |-> old, cb |-> cb]

\* The constructor's listeners (lines 58-88)
Persistent ==
  << Listener("data", "socket.data", FALSE, 0, Undefined, ""),
     Listener("timeout", "socket.timeout", FALSE, 0, Undefined, ""),
     Listener("error", "socket.error", FALSE, 0, Undefined, ""),
     Listener("end", "socket.end", FALSE, 0, Undefined, ""),
     Listener("close", "socket.close", FALSE, 0, Undefined, "") >>

\* A promise made by readAsync or _connectWithoutProxyAsync: cb and ms are
\* the call's callback and timeout.
NoOp ==
  [id |-> 0, kind |-> "none", state |-> "none", value |-> <<>>, err |-> NoError,
   cb |-> "", ms |-> 0]
NewOp(id, kind, cb, ms) ==
  [id |-> id, kind |-> kind, state |-> "pending", value |-> <<>>, err |-> NoError,
   cb |-> cb, ms |-> ms]

\* (C20's mutant: this.error = e, whatever it was)
RecordLastError(S, e) == [S EXCEPT !.error = e]
\* if (!this.error) this.error = e
RecordError(S, e) == IF S.error = NoError THEN [S EXCEPT !.error = e] ELSE S

\* this.destroy()
Destroy(S) == [S EXCEPT !.destroyed = TRUE]

\* (C7's mutant: the chunk is kept only while a read is pending)
SocketOnDataWhileReading(S, data) ==
  IF S.op.kind = "read" /\ S.op.state = "pending"
  THEN [S EXCEPT !.chunks = @ \o data]
  ELSE S
\* this.on('data'): append the chunk
SocketOnData(S, data) == [S EXCEPT !.chunks = @ \o data]
\* this.on('timeout')
SocketOnTimeout(S) == Destroy(RecordError(S, JsError("ESOCKETTIMEOUT")))
\* this.on('error')
SocketOnError(S, e) == Destroy(RecordError(S, e))
\* (C11's mutant: the end handler without this.destroy())
SocketOnEndKeepsOpen(S) == RecordError(S, JsError("EENDFIN"))
\* this.on('end')
SocketOnEnd(S) == Destroy(RecordError(S, JsError("EENDFIN")))
\* this.on('close')
SocketOnClose(S) == RecordError(S, JsError("ESOCKETCLOSED"))

\* resolve / reject of the promise a handler closes over: the first call
\* settles it, a call on a settled promise does nothing.
Resolve(S, l, v) ==
  IF S.op.id = l.owner /\ S.op.state = "pending"
  THEN [S EXCEPT !.op.state = "resolved", !.op.value = v]
  ELSE S

Reject(S, l, e) ==
  IF S.op.id = l.owner /\ S.op.state = "pending"
  THEN [S EXCEPT !.op.state = "rejected", !.op.err = e]
  ELSE S

\* (C8's mutant: this.setTimeout(0))
ClearTimeout(old) == 0
\* this.setTimeout(oldTimeout || 0)
RestoreTimeout(old) == IF old = Undefined \/ old = 0 THEN 0 ELSE old

RemoveListeners(S, l, events) ==
  LET Keep(x) == ~(x.owner = l.owner /\ x.ev \in events)
  IN [S EXCEPT !.listeners = SelectSeq(@, Keep), !.timeout = RestoreTimeout(l.old)]

\* (C3's mutant: the close listener is left registered)
ReadRemovedButClose == {"data", "timeout", "error", "end"}
\* The events whose listener readAsync's removeAllListeners removes
ReadRemoved == {"data", "timeout", "error", "end", "close"}
\* removeAllListeners of readAsync (lines 188-197)
ReadRemoveAllListeners(S, l) == RemoveListeners(S, l, ReadRemoved)

\* The events whose listener _connectWithoutProxyAsync's removeAllListeners removes
ConnectRemoved == {"error", "end", "connect", "timeout", "close"}
\* removeAllListeners of _connectWithoutProxyAsync (lines 270-279)
ConnectRemoveAllListeners(S, l) == RemoveListeners(S, l, ConnectRemoved)

\* The callbacks the caller passes to readAsync, applied to the whole buffer
Callback(cb, buf) ==
  CASE cb = "length>1" -> Len(buf) > 1
    [] OTHER -> FALSE

\* (C6's mutant: the callback is given the new chunk, callback(buffer))
SatisfiedByChunk(cb, S, data) ==
  cb = "null" \/ (cb # "notfn" /\ Callback(cb, data))
\* !callback || (typeof callback === 'function' && callback(self.chunks))
Satisfied(cb, S, data) ==
  cb = "null" \/ (cb # "notfn" /\ Callback(cb, S.chunks))

\* (C5's mutant: the promise resolves with the new chunk, resolve(buffer))
ReadOnDataResolvesChunk(S, l, data) ==
  IF Satisfied(l.cb, S, data)
  THEN Resolve(ReadRemoveAllListeners(S, l), l, data)
  ELSE S
\* (C4's mutant: the read's timeout rejects with the connect's error)
ReadOnTimeoutAsConnect(S, l) ==
  Reject(ReadRemoveAllListeners(S, l), l, JsError("ECONNECTTIMEOUT"))
\* (C2's mutant: the connect's timeout rejects with the read's error)
ConnectOnTimeoutAsRead(S, l) ==
  Reject(ConnectRemoveAllListeners(S, l), l, JsError("ESOCKETTIMEOUT"))

\* readAsync's handlers (lines 144-187)
ReadOnData(S, l, data) ==
  IF Satisfied(l.cb, S, data)
  THEN LET S1 == ReadRemoveAllListeners(S, l) IN Resolve(S1, l, S1.chunks)
  ELSE S
ReadOnEnd(S, l) == Reject(ReadRemoveAllListeners(S, l), l, JsError("EENDFIN"))
ReadOnError(S, l, e) == Reject(ReadRemoveAllListeners(S, l), l, e)
ReadOnTimeout(S, l) == Reject(ReadRemoveAllListeners(S, l), l, JsError("ESOCKETTIMEOUT"))
ReadOnClose(S, l) == Reject(ReadRemoveAllListeners(S, l), l, JsError("ESOCKETCLOSED"))

\* _connectWithoutProxyAsync's handlers (lines 248-269)
ConnectOnConnect(S, l) == Resolve(ConnectRemoveAllListeners(S, l), l, <<>>)
ConnectOnError(S, l, e) == Reject(ConnectRemoveAllListeners(S, l), l, e)
ConnectOnTimeout(S, l) ==
  Reject(ConnectRemoveAllListeners(S, l), l, JsError("ECONNECTTIMEOUT"))
ConnectOnClose(S, l) ==
  Reject(ConnectRemoveAllListeners(S, l), l, JsError("ESOCKETCLOSED"))
ConnectOnEnd(S, l) == Reject(ConnectRemoveAllListeners(S, l), l, JsError("EENDFIN"))

\* One listener called with the event's argument.  A call of an operation's
\* handler when its promise is no longer pending is counted in late.
Invoke(S0, l, arg) ==
  LET S == IF l.owner # 0 /\ ~(S0.op.id = l.owner /\ S0.op.state = "pending")
           THEN [S0 EXCEPT !.late = @ + 1]
           ELSE S0
  IN CASE l.fn = "socket.data" -> SocketOnData(S, arg)
       [] l.fn = "socket.timeout" -> SocketOnTimeout(S)
       [] l.fn = "socket.error" -> SocketOnError(S, arg)
       [] l.fn = "socket.end" -> SocketOnEnd(S)
       [] l.fn = "socket.close" -> SocketOnClose(S)
       [] l.fn = "read.onData" -> ReadOnData(S, l, arg)
       [] l.fn = "read.onEnd" -> ReadOnEnd(S, l)
       [] l.fn = "read.onError" -> ReadOnError(S, l, arg)
       [] l.fn = "read.onTimeout" -> ReadOnTimeout(S, l)
       [] l.fn = "read.onClose" -> ReadOnClose(S, l)
       [] l.fn = "connect.onConnect" -> ConnectOnConnect(S, l)
       [] l.fn = "connect.onError" -> ConnectOnError(S, l, arg)
       [] l.fn = "connect.onTimeout" -> ConnectOnTimeout(S, l)
       [] l.fn = "connect.onClose" -> ConnectOnClose(S, l)
       [] l.fn = "connect.onEnd" -> ConnectOnEnd(S, l)

\* EventEmitter.emit: the listeners registered when the event is emitted are
\* called in registration order; a once() listener is removed before its call.
RECURSIVE RunListeners(_, _, _)
RunListeners(S, ls, arg) ==
  IF ls = <<>> THEN S
  ELSE LET l == Head(ls)
           Other(x) == x # l
           S1 == IF l.once THEN [S EXCEPT !.listeners = SelectSeq(@, Other)] ELSE S
       IN RunListeners(Invoke(S1, l, arg), Tail(ls), arg)

Emit(S, ev, arg) ==
  LET OfEvent(x) == x.ev = ev
  IN RunListeners(S, SelectSeq(S.listeners, OfEvent), arg)

\* The listeners readAsync registers (lines 203-207)
ReadListeners(id, old, cb) ==
  << Listener("data", "read.onData", FALSE, id, old, cb),
     Listener("error", "read.onError", TRUE, id, old, cb),
     Listener("timeout", "read.onTimeout", TRUE, id, old, cb),
     Listener("end", "read.onEnd", TRUE, id, old, cb),
     Listener("close", "read.onClose", TRUE, id, old, cb) >>

\* The executor of readAsync(callback, timeout) (lines 198-210)
StartRead(S, id, cb, ms) ==
  LET old == S.timeout
      S1 == [S EXCEPT !.timeout = IF ms # 0 THEN ms ELSE @,
                      !.listeners = @ \o ReadListeners(id, old, cb),
                      !.op = NewOp(id, "read", cb, ms)]
  IN IF Len(S1.chunks) # 0
     THEN ReadOnData(S1, ReadListeners(id, old, cb)[1], S1.chunks)
     ELSE S1

\* The listeners _connectWithoutProxyAsync registers (lines 282-286)
ConnectListeners(id, old) ==
  << Listener("connect", "connect.onConnect", TRUE, id, old, ""),
     Listener("error", "connect.onError", TRUE, id, old, ""),
     Listener("timeout", "connect.onTimeout", TRUE, id, old, ""),
     Listener("close", "connect.onClose", TRUE, id, old, ""),
     Listener("end", "connect.onEnd", TRUE, id, old, "") >>

\* The executor of _connectWithoutProxyAsync(options) (lines 282-294); the
\* connect itself is counted by the action.
StartConnect(S, id, ms) ==
  LET old == S.timeout
  IN [S EXCEPT !.listeners = @ \o ConnectListeners(id, old),
               !.timeout = IF ms # 0 THEN ms ELSE @,
               !.op = NewOp(id, "connect", "", ms)]

\* ----------------------------------------------------------------- state

VARIABLES
  chunks,      \* this.chunks, the receive buffer
  error,       \* this.error, the terminal error (NoError for null)
  timeout,     \* this.timeout, the idle timeout (Undefined before any setTimeout)
  destroyed,   \* this.destroy() was called
  listeners,   \* the listeners registered on the socket, in registration order
  op,          \* the promise of the readAsync / direct connect last started
  late,        \* calls of an operation's handlers after its promise was settled
  call,        \* the caller's async call: name, awaiting position, outcome
  connects,    \* number of this.connect(options) issued
  writes,      \* the buffers written with this.write, in order
  received,    \* every byte delivered by a data notification, in order
  removed,     \* the positions of received that spliceChunks calls removed
  returned,    \* the values readAndClearAsync returned, concatenated
  splice,      \* the caller's last spliceChunks: buffer before and after, arguments, result
  idle,        \* the idle timeout the caller last set with setTimeout
  notified,    \* the last stream notification delivered
  closed,      \* a close notification was delivered: the socket is closed
  nEvents,     \* number of stream notifications delivered
  nCalls       \* number of calls the caller made

sockVars == <<chunks, error, timeout, destroyed, listeners, op, late>>
ghostVars == <<received, removed, returned, splice, idle, notified, closed>>
vars == <<chunks, error, timeout, destroyed, listeners, op, late, call, connects,
          writes, received, removed, returned, splice, idle, notified, closed,
          nEvents, nCalls>>

Sock ==
  [chunks |-> chunks, error |-> error, timeout |-> timeout, destroyed |-> destroyed,
   listeners |-> listeners, op |-> op, late |-> late]

SetSock(S) ==
  /\ chunks' = S.chunks
  /\ error' = S.error
  /\ timeout' = S.timeout
  /\ destroyed' = S.destroyed
  /\ listeners' = S.listeners
  /\ op' = S.op
  /\ late' = S.late

\* ------------------------------------------------------------ the caller
\* The caller awaits each call before making the next one.

\* The options of connectAsync.  Strings are their bytes; a host carries what
\* net.isIP answers for it (4, 6, or 0 for a name); a missing proxy.host is
\* the empty string, a missing port 0, a missing timeout Undefined, a missing
\* proxy.type "".
Host(ip, text) == [ip |-> ip, text |-> text]
NoProxy ==
  [given |-> FALSE, type |-> "", host |-> <<>>, port |-> 0, username |-> <<>>,
   password |-> <<>>, timeout |-> Undefined]
NoOptions == [host |-> Host(0, <<>>), port |-> 0, timeout |-> 0, proxy |-> NoProxy]

\* The caller's call: its name and options, where it awaits (pc), its outcome
\* (status, value, err) and, for an error the catch of _connectWithProxyAsync
\* wrapped, the error caught (cause).
NoCall ==
  [name |-> "none", pc |-> "done", status |-> "none", value |-> <<>>,
   err |-> NoError, cause |-> NoError, opts |-> NoOptions]
NewCall(name, pc, opts) ==
  [name |-> name, pc |-> pc, status |-> "pending", value |-> <<>>,
   err |-> NoError, cause |-> NoError, opts |-> opts]

Pending == op.state = "pending"
Settled == op.state \in {"resolved", "rejected"}
\* The continuation of the caller's await is queued: it runs before any
\* further stream notification is dispatched.
MicrotaskPending == call.status = "pending" /\ Settled
CallerReady == call.status # "pending" /\ nCalls < MaxCalls

\* The positions of received still in the buffer, in order
Surviving ==
  LET Left(i) == i \notin removed
  IN SelectSeq([i \in 1..Len(received) |-> i], Left)
\* The positions of received that a splice of the range [start, end) removes
Spliced(start, end) == {Surviving[k] : k \in (start + 1)..Min(end, Len(Surviving))}

\* spliceChunks called with an argument list: start = 0, end = this.chunks.length
SpliceArgs(buf, args) ==
  SpliceChunks(buf, IF Len(args) >= 1 THEN args[1] ELSE 0,
                    IF Len(args) >= 2 THEN args[2] ELSE Len(buf))

\* connectAsync(options) without options.proxy (lines 125-130, 243-296)
ConnectDirect(options) ==
  /\ SetSock(StartConnect(Sock, op.id + 1, options.timeout))
  /\ connects' = connects + 1
  /\ call' = NewCall("connectAsync", "direct", options)
  /\ UNCHANGED writes

\* readAsync(callback, timeout)
ReadAsync(cb, ms) ==
  /\ CallerReady
  /\ SetSock(StartRead(Sock, op.id + 1, cb, ms))
  /\ call' = NewCall("readAsync", "read", NoOptions)
  /\ nCalls' = nCalls + 1
  /\ UNCHANGED <<connects, writes, ghostVars, nEvents>>

\* readAndClearAsync(callback, timeout), up to its await
ReadAndClearAsync(cb, ms) ==
  /\ CallerReady
  /\ SetSock(StartRead(Sock, op.id + 1, cb, ms))
  /\ call' = NewCall("readAndClearAsync", "readAndClear", NoOptions)
  /\ nCalls' = nCalls + 1
  /\ UNCHANGED <<connects, writes, ghostVars, nEvents>>

\* spliceChunks(...args) called by the caller
CallSpliceChunks(args) ==
  /\ CallerReady
  /\ chunks' = SpliceArgs(chunks, args).chunks
  /\ splice' = [before |-> chunks, args |-> args, ret |-> SpliceArgs(chunks, args).ret,
                after |-> SpliceArgs(chunks, args).chunks]
  /\ removed' = removed \cup Spliced(IF Len(args) >= 1 THEN args[1] ELSE 0,
                                     IF Len(args) >= 2 THEN args[2] ELSE Len(chunks))
  /\ nCalls' = nCalls + 1
  /\ UNCHANGED <<error, timeout, destroyed, listeners, op, late, call, connects,
                 writes, received, returned, idle, notified, closed, nEvents>>

\* socket.setTimeout(ms) called by the caller: the ambient idle timeout
CallSetTimeout(ms) ==
  /\ CallerReady
  /\ timeout' = ms
  /\ idle' = ms
  /\ nCalls' = nCalls + 1
  /\ UNCHANGED <<chunks, error, destroyed, listeners, op, late, call, connects,
                 writes, received, removed, returned, splice, notified, closed,
                 nEvents>>

\* await of the direct connect settles connectAsync
ResumeDirect ==
  /\ MicrotaskPending /\ call.pc = "direct"
  /\ call' = [call EXCEPT !.pc = "done", !.status = op.state, !.err = op.err]
  /\ UNCHANGED <<sockVars, connects, writes, ghostVars, nEvents, nCalls>>

\* await of readAsync's promise settles readAsync
ResumeRead ==
  /\ MicrotaskPending /\ call.pc = "read"
  /\ call' = [call EXCEPT !.pc = "done", !.status = op.state, !.value = op.value,
                          !.err = op.err]
  /\ UNCHANGED <<sockVars, connects, writes, ghostVars, nEvents, nCalls>>

\* readAndClearAsync after its await (lines 221-223): a rejection is thrown
\* on, a value is returned after this.spliceChunks(0)
ResumeReadAndClear ==
  /\ MicrotaskPending /\ call.pc = "readAndClear"
  /\ call' = [call EXCEPT !.pc = "done", !.status = op.state, !.value = op.value,
                          !.err = op.err]
  /\ IF op.state = "resolved"
     THEN /\ chunks' = SpliceArgs(chunks, <<0>>).chunks
          /\ removed' = removed \cup Spliced(0, Len(chunks))
          /\ returned' = returned \o op.value
     ELSE UNCHANGED <<chunks, removed, returned>>
  /\ UNCHANGED <<error, timeout, destroyed, listeners, op, late, connects, writes,
                 received, splice, idle, notified, closed, nEvents, nCalls>>

\* ----------------------------------------------------------- the proxies

\* Number.prototype.toString(radix) as the bytes of the digits
HexChar(d) == IF d < 10 THEN 48 + d ELSE 87 + d
RECURSIVE NumberToString(_, _)
NumberToString(n, radix) ==
  IF n < radix THEN <<HexChar(n)>>
  ELSE NumberToString(n \div radix, radix) \o <<HexChar(n % radix)>>

\* new Array(4 - hex.length + 1).join('0') + hex
RECURSIVE Zeros(_)
Zeros(n) == IF n <= 0 THEN <<>> ELSE <<48>> \o Zeros(n - 1)
PadHex(hex) == Zeros(4 - Len(hex)) \o hex

\* Buffer.from(hex, 'hex'): two digits a byte, up to the first pair that is
\* not two hex digits
HexValue(c) ==
  CASE c >= 48 /\ c <= 57 -> c - 48
    [] c >= 97 /\ c <= 102 -> c - 87
    [] c >= 65 /\ c <= 70 -> c - 55
    [] OTHER -> -1
RECURSIVE BufferFromHex(_)
BufferFromHex(hex) ==
  IF Len(hex) < 2 \/ HexValue(hex[1]) < 0 \/ HexValue(hex[2]) < 0 THEN <<>>
  ELSE <<16 * HexValue(hex[1]) + HexValue(hex[2])>>
       \o BufferFromHex(SubSeq(hex, 3, Len(hex)))

\* String.prototype.split(separator), the separator one character
RECURSIVE Split(_, _)
Split(str, sep) ==
  IF \A i \in 1..Len(str) : str[i] # sep THEN <<str>>
  ELSE LET i == CHOOSE k \in 1..Len(str) :
                  str[k] = sep /\ \A j \in 1..(k - 1) : str[j] # sep
       IN <<SubSeq(str, 1, i - 1)>> \o Split(SubSeq(str, i + 1, Len(str)), sep)

\* An array element given to Buffer.from(array): ToNumber of the string
\* (0 for the empty string, NaN otherwise unless all digits), then & 255
RECURSIVE DecimalValue(_)
DecimalValue(str) ==
  IF str = <<>> THEN 0
  ELSE 10 * DecimalValue(SubSeq(str, 1, Len(str) - 1)) + (str[Len(str)] - 48)
ByteOfString(str) ==
  IF \A i \in 1..Len(str) : str[i] >= 48 /\ str[i] <= 57
  THEN DecimalValue(str) % 256
  ELSE 0

RECURSIVE Concat(_)
Concat(bufs) == IF bufs = <<>> THEN <<>> ELSE Head(bufs) \o Concat(Tail(bufs))

\* The port as _connectSocks5Proxy encodes it (lines 416-421)
PortBytes(port) ==
  LET hex == NumberToString(port, 16)
  IN BufferFromHex(IF Len(hex) < 4 THEN PadHex(hex) ELSE hex)

\* The SOCKS5 target request (lines 413-460)
TargetInfo(host, port) ==
  LET head == <<5, 1, 0>>
  IN CASE host.ip = 4 ->
            LET parts == Split(host.text, 46)
            IN head \o <<1>> \o [i \in 1..Len(parts) |-> ByteOfString(parts[i])]
                    \o PortBytes(port)
       [] host.ip = 0 ->
            head \o <<3, Len(host.text) % 256>> \o host.text \o PortBytes(port)
       [] host.ip = 6 ->
            LET parts == Split(host.text, 58)
            IN head \o <<4>>
                    \o Concat([i \in 1..Len(parts) |-> BufferFromHex(PadHex(parts[i]))])
                    \o PortBytes(port)

\* The SOCKS5 username/password request (lines 392-397)
AuthInfo(username, password) ==
  <<1, Len(username) % 256>> \o username \o <<Len(password) % 256>> \o password

\* Buffer.prototype.toString('base64')
Base64Char(v) ==
  CASE v < 26 -> 65 + v
    [] v < 52 -> 97 + (v - 26)
    [] v < 62 -> 48 + (v - 52)
    [] v = 62 -> 43
    [] OTHER -> 47
RECURSIVE Base64(_)
Base64(b) ==
  CASE Len(b) = 0 -> <<>>
    [] Len(b) = 1 ->
         <<Base64Char(b[1] \div 4), Base64Char((b[1] % 4) * 16), 61, 61>>
    [] Len(b) = 2 ->
         <<Base64Char(b[1] \div 4), Base64Char((b[1] % 4) * 16 + b[2] \div 16),
           Base64Char((b[2] % 16) * 4), 61>>
    [] OTHER ->
         <<Base64Char(b[1] \div 4), Base64Char((b[1] % 4) * 16 + b[2] \div 16),
           Base64Char((b[2] % 16) * 4 + b[3] \div 64), Base64Char(b[3] % 64)>>
         \o Base64(SubSeq(b, 4, Len(b)))

\* The HTTP CONNECT request (lines 338-345)
HttpHeader(host, port, username, password) ==
  \* "CONNECT "
  <<67, 79, 78, 78, 69, 67, 84, 32>> \o host.text \o <<58>> \o NumberToString(port, 10)
  \* " HTTP/1.1\r\n"
  \o <<32, 72, 84, 84, 80, 47, 49, 46, 49, 13, 10>>
  \* "Connection: keep-alive\r\n"
  \o <<67, 111, 110, 110, 101, 99, 116, 105, 111, 110, 58, 32, 107, 101, 101, 112, 45, 97, 108, 105, 118, 101, 13, 10>>
  \* "Content-Length: 0\r\n"
  \o <<67, 111, 110, 116, 101, 110, 116, 45, 76, 101, 110, 103, 116, 104, 58, 32, 48, 13, 10>>
  \* "Proxy-Authorization: Basic " ... "\r\n"
  \o (IF username # <<>>
      THEN <<80, 114, 111, 120, 121, 45, 65, 117, 116, 104, 111, 114, 105, 122, 97, 116, 105, 111, 110, 58, 32, 66, 97, 115, 105, 99, 32>>
           \o Base64(username \o <<58>> \o password) \o <<13, 10>>
      ELSE <<>>)
  \o <<13, 10>>

\* String.prototype.trim
WhiteSpace == {9, 10, 11, 12, 13, 32}
RECURSIVE Trim(_)
Trim(str) ==
  IF str = <<>> THEN str
  ELSE IF str[1] \in WhiteSpace THEN Trim(Tail(str))
  ELSE IF str[Len(str)] \in WhiteSpace THEN Trim(SubSeq(str, 1, Len(str) - 1))
  ELSE str

LowerCaseChar(c) == IF c >= 65 /\ c <= 90 THEN c + 32 ELSE c

\* (C17's mutant: the match is case-sensitive)
MatchesHttp200CaseSensitive(str) ==
  /\ Len(str) >= 12
  /\ SubSeq(str, 1, 7) = <<72, 84, 84, 80, 47, 49, 46>>
  /\ str[8] \in {48, 49}
  /\ SubSeq(str, 9, 12) = <<32, 50, 48, 48>>

\* str.match(/^HTTP\/1\.[01] 200/i)
MatchesHttp200(str) ==
  /\ Len(str) >= 12
  \* "http/1."
  /\ [i \in 1..7 |-> LowerCaseChar(str[i])] = <<104, 116, 116, 112, 47, 49, 46>>
  /\ str[8] \in {48, 49}
  \* " 200"
  /\ SubSeq(str, 9, 12) = <<32, 50, 48, 48>>

\* String(proxy.type || 'socks5').toLowerCase(), on the types the caller passes
ProxyType(type) ==
  CASE type = "" -> "socks5"
    [] type = "SOCKS5" -> "socks5"
    [] type = "HTTP" -> "http"
    [] OTHER -> type

\* const { timeout = 10000 } = proxy
DefaultProxyTimeout == 10000
\* (C19's mutant: no default for the proxy timeout)
ProxyTimeoutWithoutDefault(proxy) ==
  IF proxy.timeout = Undefined THEN 0 ELSE proxy.timeout
ProxyTimeout(proxy) ==
  IF proxy.timeout = Undefined THEN DefaultProxyTimeout ELSE proxy.timeout

AssertionError(text) == Err("AssertionError [ERR_ASSERTION]", <<Txt(text)>>)

\* (C10's mutant: the port is not asserted)
ProxyAssertionWithoutPort(proxy) ==
  CASE ProxyType(proxy.type) \notin {"socks5", "http"} ->
         AssertionError("The proxy type must be socks5 or http.")
    [] proxy.host = <<>> -> AssertionError("options.proxy.host is required.")
    [] OTHER -> NoError

\* The first assertion of _connectWithProxyAsync that fails (lines 308-310)
ProxyAssertion(proxy) ==
  CASE ProxyType(proxy.type) \notin {"socks5", "http"} ->
         AssertionError("The proxy type must be socks5 or http.")
    [] proxy.host = <<>> -> AssertionError("options.proxy.host is required.")
    [] proxy.port = 0 -> AssertionError("options.proxy.port is required.")
    [] OTHER -> NoError

\* The call rejected with e wrapped by the catch of _connectWithProxyAsync
\* (lines 324-327)
ThrowProxyError(e) ==
  call' = [call EXCEPT !.pc = "done", !.status = "rejected", !.err = ProxyError(e),
                       !.cause = e]

\* this.write(buffer) followed by the call of readAndClearAsync(null, timeout),
\* up to its await
WriteThenRead(buffer, pc) ==
  /\ writes' = Append(writes, buffer)
  /\ SetSock(StartRead(Sock, op.id + 1, "null", ProxyTimeout(call.opts.proxy)))
  /\ call' = [call EXCEPT !.pc = pc]

\* readAndClearAsync after its await, inside a negotiation: this.spliceChunks(0)
ClearRead ==
  /\ chunks' = SpliceArgs(chunks, <<0>>).chunks
  /\ removed' = removed \cup Spliced(0, Len(chunks))
  /\ returned' = returned \o op.value
  /\ UNCHANGED <<error, timeout, destroyed, listeners, op, late>>

\* connectAsync(options) with options.proxy: _connectWithProxyAsync up to its
\* first await (lines 303-316)
ConnectWithProxy(options) ==
  IF ProxyAssertion(options.proxy) # NoError
  THEN /\ call' = [NewCall("connectAsync", "done", options) EXCEPT
                     !.status = "rejected",
                     !.err = ProxyError(ProxyAssertion(options.proxy)),
                     !.cause = ProxyAssertion(options.proxy)]
       /\ UNCHANGED <<sockVars, connects, writes>>
  ELSE /\ SetSock(StartConnect(Sock, op.id + 1, ProxyTimeout(options.proxy)))
       /\ connects' = connects + 1
       /\ call' = NewCall("connectAsync", "proxy.connect", options)
       /\ UNCHANGED writes

\* connectAsync(options) (lines 125-130)
ConnectAsync(options) ==
  /\ IF options.proxy.given THEN ConnectWithProxy(options) ELSE ConnectDirect(options)
  /\ nCalls' = nCalls + 1
  /\ UNCHANGED <<ghostVars, nEvents>>

\* _connectWithProxyAsync after the await of the connect to the proxy
\* (lines 317-323), into the first write of the negotiation (lines 377-378, 346-347)
ResumeProxyConnect ==
  /\ MicrotaskPending /\ call.pc = "proxy.connect"
  /\ IF op.state = "rejected"
     THEN ThrowProxyError(op.err) /\ UNCHANGED <<sockVars, writes>>
     ELSE IF ProxyType(call.opts.proxy.type) = "socks5"
     THEN WriteThenRead(<<5, 2, 0, 2>>, "socks5.greeting")
     ELSE WriteThenRead(HttpHeader(call.opts.host, call.opts.port,
                                   call.opts.proxy.username, call.opts.proxy.password),
                        "http.reply")
  /\ UNCHANGED <<connects, ghostVars, nEvents, nCalls>>

\* A negotiation resumes when the readAndClearAsync it awaits at pc settles
Resumes(pc) ==
  /\ MicrotaskPending /\ call.pc = pc
  /\ UNCHANGED <<connects, received, splice, idle, notified, closed, nEvents, nCalls>>
\* The read was rejected: readAndClearAsync throws it on, nothing is cleared
ReadRejected ==
  /\ ThrowProxyError(op.err)
  /\ UNCHANGED <<sockVars, writes, removed, returned>>

\* What follows a read-and-clear whose value failed a check or ended the
\* negotiation: the buffer is cleared, nothing is written
Throw(e) == ClearRead /\ ThrowProxyError(e) /\ UNCHANGED writes
Established ==
  /\ ClearRead
  /\ call' = [call EXCEPT !.pc = "done", !.status = "resolved"]
  /\ UNCHANGED writes
\* What follows one that passed: the buffer is cleared, the next request is
\* written and its reply awaited
Continue(buffer, pc) ==
  /\ writes' = Append(writes, buffer)
  /\ LET S == StartRead([Sock EXCEPT !.chunks = SpliceArgs(chunks, <<0>>).chunks],
                        op.id + 1, "null", ProxyTimeout(call.opts.proxy))
     IN SetSock(S)
  /\ removed' = removed \cup Spliced(0, Len(chunks))
  /\ returned' = returned \o op.value
  /\ call' = [call EXCEPT !.pc = pc]

\* The byte chunks[i] as a template string prints it
Byte(buf, i) == IF i < Len(buf) THEN Raw(<<buf[i + 1]>>) ELSE Txt("undefined")

\* (C13's mutant: the method the proxy chose is not looked at, if (authType))
GreetingCheckedAnyMethod(reply) ==
  CASE Len(reply) # 2 -> Throw(JsError("Unexpected number of bytes received."))
    [] reply[1] # 5 ->
         Throw(Err("Error", <<Txt("Unexpected socks version number: "),
                              Byte(reply, 0), Txt(".")>>))
    [] reply[2] # 0 ->
         Continue(AuthInfo(call.opts.proxy.username, call.opts.proxy.password),
                  "socks5.auth")
    [] OTHER ->
         Continue(TargetInfo(call.opts.host, call.opts.port), "socks5.target")
\* _connectSocks5Proxy after the greeting's reply (lines 378-410)
GreetingChecked(reply) ==
  CASE Len(reply) # 2 -> Throw(JsError("Unexpected number of bytes received."))
    [] reply[1] # 5 ->
         Throw(Err("Error", <<Txt("Unexpected socks version number: "),
                              Byte(reply, 0), Txt(".")>>))
    [] reply[2] \notin {0, 2} ->
         Throw(Err("Error", <<Txt("Unexpected socks authentication method: "),
                              Byte(reply, 1)>>))
    [] reply[2] = 2 ->
         Continue(AuthInfo(call.opts.proxy.username, call.opts.proxy.password),
                  "socks5.auth")
    [] OTHER ->
         Continue(TargetInfo(call.opts.host, call.opts.port), "socks5.target")
ResumeSocks5Greeting ==
  /\ Resumes("socks5.greeting")
  /\ IF op.state = "rejected" THEN ReadRejected ELSE GreetingChecked(op.value)

\* (C16's mutant: the version byte is checked before the number of bytes)
AuthCheckedVersionFirst(reply) ==
  CASE reply[1] # 1 ->
         Throw(Err("Error", <<Txt("Unexpected authentication method code: "),
                              Byte(reply, 0), Txt(".")>>))
    [] Len(reply) # 2 -> Throw(JsError("Unexpected number of bytes received."))
    [] reply[2] # 0 ->
         Throw(Err("Error", <<Txt("Username and password authentication failure: "),
                              Byte(reply, 1), Txt(".")>>))
    [] OTHER ->
         Continue(TargetInfo(call.opts.host, call.opts.port), "socks5.target")
\* _connectSocks5Proxy after the authentication's reply (lines 400-460)
AuthChecked(reply) ==
  CASE Len(reply) # 2 -> Throw(JsError("Unexpected number of bytes received."))
    [] reply[1] # 1 ->
         Throw(Err("Error", <<Txt("Unexpected authentication method code: "),
                              Byte(reply, 0), Txt(".")>>))
    [] reply[2] # 0 ->
         Throw(Err("Error", <<Txt("Username and password authentication failure: "),
                              Byte(reply, 1), Txt(".")>>))
    [] OTHER ->
         Continue(TargetInfo(call.opts.host, call.opts.port), "socks5.target")
ResumeSocks5Auth ==
  /\ Resumes("socks5.auth")
  /\ IF op.state = "rejected" THEN ReadRejected ELSE AuthChecked(op.value)

\* ERROR_MAP (lines 10-19); the source's Chinese texts are given in English
ERROR_MAP ==
  [c \in 1..8 |->
     CASE c = 1 -> "proxy server failure"
       [] c = 2 -> "proxy server ruleset does not allow the connection"
       [] c = 3 -> "network unreachable"
       [] c = 4 -> "target server unreachable (invalid host name)"
       [] c = 5 -> "connection to the target server refused"
       [] c = 6 -> "TTL expired"
       [] c = 7 -> "command not supported"
       [] c = 8 -> "target server address type not supported"]

\* (C15's mutant: ERROR_MAP is not consulted)
TargetCheckedWithoutTable(reply) ==
  CASE reply[1] # 5 ->
         Throw(Err("Error", <<Txt("Unexpected SOCKS version number: "),
                              Byte(reply, 0), Txt(".")>>))
    [] Len(reply) < 2 \/ reply[2] # 0 ->
         Throw(Err("Error", <<Txt("unknown error, connecting to the target address failed: "),
                              Raw(call.opts.host.text)>>))
    [] OTHER -> Established
\* _connectSocks5Proxy after the target request's reply (lines 462-473)
TargetChecked(reply) ==
  CASE reply[1] # 5 ->
         Throw(Err("Error", <<Txt("Unexpected SOCKS version number: "),
                              Byte(reply, 0), Txt(".")>>))
    [] Len(reply) < 2 \/ reply[2] # 0 ->
         IF Len(reply) >= 2 /\ reply[2] \in DOMAIN ERROR_MAP
         THEN Throw(JsError(ERROR_MAP[reply[2]]))
         ELSE Throw(Err("Error", <<Txt("unknown error, connecting to the target address failed: "),
                                   Raw(call.opts.host.text)>>))
    [] OTHER -> Established
ResumeSocks5Target ==
  /\ Resumes("socks5.target")
  /\ IF op.state = "rejected" THEN ReadRejected ELSE TargetChecked(op.value)

\* _connectHttpProxy after the reply (lines 347-353)
HttpChecked(reply) ==
  IF MatchesHttp200(Trim(reply)) THEN Established
  ELSE Throw(Err("Error", <<Txt("connecting to the target failed: "), Raw(Trim(reply))>>))
ResumeHttpReply ==
  /\ Resumes("http.reply")
  /\ IF op.state = "rejected" THEN ReadRejected ELSE HttpChecked(op.value)

\* ------------------------------------------------------------ the stream
\* The stream's notifications.  Any notification may come at any time; the
\* timeout notification needs an idle timeout to be set.

NoEvent == [ev |-> "", err |-> NoError, data |-> <<>>]

\* connect, data and timeout are dispatched from the event loop, after the
\* continuations queued by the previous one have run; error, end and close
\* are emitted from process.nextTick, which runs before them.
Notify(ev, data, e) ==
  /\ ev \in {"connect", "data", "timeout"} => ~MicrotaskPending
  /\ SetSock(Emit(Sock, ev, IF ev = "error" THEN e ELSE data))
  /\ received' = received \o data
  /\ notified' = [ev |-> ev, err |-> e, data |-> data]
  /\ closed' = (closed \/ ev = "close")
  /\ nEvents' = nEvents + 1
  /\ UNCHANGED <<call, connects, writes, removed, returned, splice, idle, nCalls>>

StreamErrors ==
  {JsError("connect ECONNREFUSED"), JsError("getaddrinfo ENOTFOUND")}

OnConnect == Notify("connect", <<>>, NoError)
OnData(delivered) == \E d \in delivered : Notify("data", d, NoError)
OnError == \E e \in StreamErrors : Notify("error", <<>>, e)
OnTimeout == timeout > 0 /\ Notify("timeout", <<>>, NoError)
OnEnd == Notify("end", <<>>, NoError)
OnClose == Notify("close", <<>>, NoError)

\* -------------------------------------------------------- specifications

Init ==
  /\ chunks = <<>>
  /\ error = NoError
  /\ timeout = Undefined
  /\ destroyed = FALSE
  /\ listeners = Persistent
  /\ op = NoOp
  /\ late = 0
  /\ call = NoCall
  /\ connects = 0
  /\ writes = <<>>
  /\ received = <<>>
  /\ removed = {}
  /\ returned = <<>>
  /\ splice = [before |-> <<>>, args |-> <<>>, ret |-> <<>>, after |-> <<>>]
  /\ idle = Undefined
  /\ notified = NoEvent
  /\ closed = FALSE
  /\ nEvents = 0
  /\ nCalls = 0

\* What the caller passes and the stream delivers
\* "example.com"
ExampleCom == Host(0, <<101, 120, 97, 109, 112, 108, 101, 46, 99, 111, 109>>)
DirectOptions ==
  {[NoOptions EXCEPT !.host = ExampleCom, !.port = 443, !.timeout = ms] : ms \in {0, 50}}
Callbacks == {"null", "length>1"}
ReadTimeouts == {0, 20}
IdleTimeouts == {30}
Deliveries == {<<7>>, <<8, 9>>}
SpliceArguments ==
  {<<>>} \cup {<<s>> : s \in 0..Len(chunks)}
         \cup {r \in (0..Len(chunks)) \X (0..Len(chunks)) : r[1] <= r[2]}

ConnectAsyncDirect == \E options \in DirectOptions : CallerReady /\ ConnectAsync(options)

Next ==
  \/ ConnectAsyncDirect
  \/ \E cb \in Callbacks, ms \in ReadTimeouts : ReadAsync(cb, ms)
  \/ \E cb \in Callbacks, ms \in ReadTimeouts : ReadAndClearAsync(cb, ms)
  \/ \E args \in SpliceArguments : CallSpliceChunks(args)
  \/ \E ms \in IdleTimeouts : CallSetTimeout(ms)
  \/ ResumeDirect
  \/ ResumeRead
  \/ ResumeReadAndClear
  \/ nEvents < MaxEvents /\ OnConnect
  \/ nEvents < MaxEvents /\ OnData(Deliveries)
  \/ nEvents < MaxEvents /\ OnError
  \/ nEvents < MaxEvents /\ OnTimeout
  \/ nEvents < MaxEvents /\ OnEnd
  \/ nEvents < MaxEvents /\ OnClose

Spec == Init /\ [][Next]_vars

\* A new socket connected through a proxy: the caller's one call is
\* connectAsync, with or without options.proxy, well-formed or not.
MaxProxyEvents == 4

\* "127.0.0.1"
Localhost == <<49, 50, 55, 46, 48, 46, 48, 46, 49>>
\* "1.2.3.4"
Ipv4Target == Host(4, <<49, 46, 50, 46, 51, 46, 52>>)
Socks5Proxy ==
  [given |-> TRUE, type |-> "", host |-> Localhost, port |-> 1086,
   username |-> <<>>, password |-> <<>>, timeout |-> Undefined]
\* username "u", password "pw", timeout 100
HttpProxy ==
  [Socks5Proxy EXCEPT !.type = "HTTP", !.username = <<117>>, !.password = <<112, 119>>,
                      !.timeout = 100]
Proxies ==
  { Socks5Proxy,
    HttpProxy,
    [Socks5Proxy EXCEPT !.type = "socks4"],
    [Socks5Proxy EXCEPT !.host = <<>>],
    [HttpProxy EXCEPT !.port = 0] }
ProxyOptions ==
  {[NoOptions EXCEPT !.host = h, !.port = 80, !.proxy = p] :
     h \in {ExampleCom, Ipv4Target}, p \in Proxies}

\* "HTTP/1.1 200 OK\r\n\r\n"
Http200 == <<72, 84, 84, 80, 47, 49, 46, 49, 32, 50, 48, 48, 32, 79, 75, 13, 10, 13, 10>>
\* "HTTP/1.1 407 Proxy Authentication Required\r\n\r\n"
Http407 == <<72, 84, 84, 80, 47, 49, 46, 49, 32, 52, 48, 55, 32, 80, 114, 111, 120, 121, 32, 65, 117, 116, 104, 101, 110, 116, 105, 99, 97, 116, 105, 111, 110, 32, 82, 101, 113, 117, 105, 114, 101, 100, 13, 10, 13, 10>>
ProxyDeliveries == {<<5, 0>>, <<5, 2>>, <<1, 0>>, Http200, Http407}

ConnectAsyncOnce ==
  \E options \in ProxyOptions \cup DirectOptions :
     call.name = "none" /\ ConnectAsync(options)

NextProxy ==
  \/ ConnectAsyncOnce
  \/ ResumeDirect
  \/ ResumeProxyConnect
  \/ ResumeSocks5Greeting
  \/ ResumeSocks5Auth
  \/ ResumeSocks5Target
  \/ ResumeHttpReply
  \/ nEvents < MaxProxyEvents /\ OnConnect
  \/ nEvents < MaxProxyEvents /\ OnData(ProxyDeliveries)
  \/ nEvents < MaxProxyEvents /\ OnError
  \/ nEvents < MaxProxyEvents /\ OnTimeout
  \/ nEvents < MaxProxyEvents /\ OnEnd
  \/ nEvents < MaxProxyEvents /\ OnClose

SpecProxy == Init /\ [][NextProxy]_vars

\* The stream as net.Socket drives one connection: nothing is notified before
\* this.connect() is issued; connect answers a pending connect; an error may
\* come while the socket is neither destroyed nor closed, data and end only
\* once it is also connected; close comes once, and always after
\* this.destroy(); the timer of a set timeout fires when nothing else arrives.
MaxLiveEvents == 4

StreamAlive == connects > 0 /\ ~destroyed /\ ~closed
LiveConnect == StreamAlive /\ op.kind = "connect" /\ Pending /\ OnConnect
Connected == StreamAlive /\ ~(op.kind = "connect" /\ op.state # "resolved")
LiveData(delivered) == Connected /\ nEvents < MaxLiveEvents /\ OnData(delivered)
LiveError == StreamAlive /\ OnError
LiveEnd == Connected /\ OnEnd
LiveTimeout == connects > 0 /\ OnTimeout
LiveClose == connects > 0 /\ ~closed /\ OnClose
\* The close that follows this.destroy()
CloseAfterDestroy == destroyed /\ LiveClose

\* The caller connects directly, once, then reads.
ConnectAsyncLive ==
  \E options \in DirectOptions : call.name = "none" /\ ConnectAsync(options)
ReadAsyncLive ==
  \E cb \in Callbacks, ms \in ReadTimeouts : connects > 0 /\ ReadAsync(cb, ms)

NextLive ==
  \/ ConnectAsyncLive
  \/ ReadAsyncLive
  \/ ResumeDirect
  \/ ResumeRead
  \/ LiveConnect
  \/ LiveData(Deliveries)
  \/ LiveError
  \/ LiveEnd
  \/ LiveTimeout
  \/ LiveClose

\* A set timer fires unless something else settles the operation first, and
\* close follows destroy.
StreamFairness == WF_vars(LiveTimeout) /\ WF_vars(CloseAfterDestroy)

\* The continuations of settled promises always run.
SpecLive ==
  /\ Init /\ [][NextLive]_vars
  /\ WF_vars(ResumeDirect) /\ WF_vars(ResumeRead)
  /\ StreamFairness

\* The caller's one call is connectAsync through a proxy.
\* A proxy given with timeout: 0
UntimedProxy == [Socks5Proxy EXCEPT !.timeout = 0]
LiveProxyOptions ==
  {[NoOptions EXCEPT !.host = ExampleCom, !.port = 80, !.proxy = p] :
     p \in Proxies \cup {UntimedProxy}}

ConnectAsyncProxyLive ==
  \E options \in LiveProxyOptions : call.name = "none" /\ ConnectAsync(options)

NextProxyLive ==
  \/ ConnectAsyncProxyLive
  \/ ResumeProxyConnect
  \/ ResumeSocks5Greeting
  \/ ResumeSocks5Auth
  \/ ResumeSocks5Target
  \/ ResumeHttpReply
  \/ LiveConnect
  \/ LiveData(ProxyDeliveries)
  \/ LiveError
  \/ LiveEnd
  \/ LiveTimeout
  \/ LiveClose

SpecProxyLive ==
  /\ Init /\ [][NextProxyLive]_vars
  /\ WF_vars(ResumeProxyConnect)
  /\ WF_vars(ResumeSocks5Greeting)
  /\ WF_vars(ResumeSocks5Auth)
  /\ WF_vars(ResumeSocks5Target)
  /\ WF_vars(ResumeHttpReply)
  /\ StreamFairness

\* A connectAsync through a SOCKS5 proxy, over the stream of one connection:
\* the proxy's replies arrive whole, split or together with the first byte
\* of the tunnel.

\* username "u", password "pw"
Socks5AuthProxy == [Socks5Proxy EXCEPT !.username = <<117>>, !.password = <<112, 119>>]
Socks5Options ==
  {[NoOptions EXCEPT !.host = h, !.port = 80, !.proxy = p] :
     h \in {ExampleCom, Ipv4Target}, p \in {Socks5Proxy, Socks5AuthProxy}}

\* A byte of the tunnel, as opposed to the bytes of the proxy's replies
TunnelByte == 201
\* The reply to the target request: 05 00 00 01 00 00 00 00 00 00
TargetReply == <<5, 0, 0, 1, 0, 0, 0, 0, 0, 0>>
Socks5Deliveries ==
  { <<5, 0>>, <<5, 2>>, <<1, 0>>, <<1, 1>>, <<5, 9>>, <<5>>,
    TargetReply,
    SubSeq(TargetReply, 3, 10),
    TargetReply \o <<TunnelByte>>,
    <<TunnelByte>> }

ConnectAsyncSocks5 ==
  \E options \in Socks5Options : call.name = "none" /\ ConnectAsync(options)

NextSocks5 ==
  \/ ConnectAsyncSocks5
  \/ ResumeProxyConnect
  \/ ResumeSocks5Greeting
  \/ ResumeSocks5Auth
  \/ ResumeSocks5Target
  \/ LiveConnect
  \/ LiveData(Socks5Deliveries)
  \/ LiveError
  \/ LiveEnd
  \/ LiveTimeout
  \/ LiveClose

SpecSocks5 == Init /\ [][NextSocks5]_vars

\* A new socket connected through an HTTP proxy, with and without a username
\* and a password, and what the proxy may answer.
HttpProxies ==
  { HttpProxy,
    [HttpProxy EXCEPT !.password = <<>>],
    [HttpProxy EXCEPT !.username = <<>>],
    [HttpProxy EXCEPT !.username = <<>>, !.password = <<>>] }
HttpOptions ==
  {[NoOptions EXCEPT !.host = h, !.port = 80, !.proxy = p] :
     h \in {ExampleCom, Ipv4Target}, p \in HttpProxies}
\* "http/1.0 200 ok\r\n\r\n"
Http200LowerCase ==
  <<104, 116, 116, 112, 47, 49, 46, 48, 32, 50, 48, 48, 32, 111, 107, 13, 10, 13, 10>>
\* " \r\nHTTP/1.1 200 Connection established\r\n\r\n"
Http200Indented ==
  <<32, 13, 10, 72, 84, 84, 80, 47, 49, 46, 49, 32, 50, 48, 48, 32, 67, 111, 110, 110, 101, 99, 116, 105, 111, 110, 32, 101, 115, 116, 97, 98, 108, 105, 115, 104, 101, 100, 13, 10, 13, 10>>
\* "HTTP/1.1 2"
Http200FirstPart ==
  <<72, 84, 84, 80, 47, 49, 46, 49, 32, 50>>
\* "HTTP/2 200\r\n\r\n"
Http2 ==
  <<72, 84, 84, 80, 47, 50, 32, 50, 48, 48, 13, 10, 13, 10>>
HttpDeliveries ==
  {Http200, Http407, Http200LowerCase, Http200Indented, Http200FirstPart, Http2}

ConnectAsyncHttp ==
  \E options \in HttpOptions : call.name = "none" /\ ConnectAsync(options)

NextHttp ==
  \/ ConnectAsyncHttp
  \/ ResumeProxyConnect
  \/ ResumeHttpReply
  \/ LiveConnect
  \/ LiveData(HttpDeliveries)
  \/ LiveError
  \/ LiveEnd
  \/ LiveTimeout
  \/ LiveClose

SpecHttp == Init /\ [][NextHttp]_vars

\* A new socket connected through a SOCKS5 proxy to targets of each address
\* class (names, IPv4, IPv6 in full and in compressed form) and ports over the
\* whole range; the proxy answers the greeting with 05 00.
TargetHosts ==
  {
    \* "a"
    Host(0, <<97>>),
    \* "example.com"
    Host(0, <<101, 120, 97, 109, 112, 108, 101, 46, 99, 111, 109>>),
    \* "1.2.3.4"
    Host(4, <<49, 46, 50, 46, 51, 46, 52>>),
    \* "255.0.10.200"
    Host(4, <<50, 53, 53, 46, 48, 46, 49, 48, 46, 50, 48, 48>>),
    \* "1050:0:0:0:5:600:300c:326b"
    Host(6, <<49, 48, 53, 48, 58, 48, 58, 48, 58, 48, 58, 53, 58, 54, 48, 48, 58, 51, 48, 48, 99, 58, 51, 50, 54, 98>>),
    \* "ffff:ffff:ffff:ffff:ffff:ffff:ffff:ffff"
    Host(6, <<102, 102, 102, 102, 58, 102, 102, 102, 102, 58, 102, 102, 102, 102, 58, 102, 102, 102, 102, 58, 102, 102, 102, 102, 58, 102, 102, 102, 102, 58, 102, 102, 102, 102, 58, 102, 102, 102, 102>>),
    \* "::1"
    Host(6, <<58, 58, 49>>),
    \* "fe80::1"
    Host(6, <<102, 101, 56, 48, 58, 58, 49>>) }
TargetPorts == {0, 80, 255, 256, 443, 4096, 65535}
TargetOptions ==
  {[NoOptions EXCEPT !.host = h, !.port = p, !.proxy = Socks5Proxy] :
     h \in TargetHosts, p \in TargetPorts}

ConnectAsyncTarget ==
  \E options \in TargetOptions : call.name = "none" /\ ConnectAsync(options)

NextTarget ==
  \/ ConnectAsyncTarget
  \/ ResumeProxyConnect
  \/ ResumeSocks5Greeting
  \/ ResumeSocks5Target
  \/ LiveConnect
  \/ LiveData({<<5, 0>>, TargetReply})

SpecTarget == Init /\ [][NextTarget]_vars

\* ---------------------------------------------------------------- claims

\* A step that delivers a stream notification (recorded in notified')
Notification == nEvents' = nEvents + 1
\* A step in which readAsync is called (by the caller or by a negotiation)
ReadStarts == op'.id = op.id + 1 /\ op'.kind = "read"
Terminal == {"error", "timeout", "end", "close"}
\* What the caller's callback answers on a buffer; no callback accepts any data
Holds(cb, buf) == cb = "null" \/ Callback(cb, buf)

\* C2: a direct connectAsync with options.timeout set whose timeout
\* notification comes while the connect is pending rejects with
\* ECONNECTTIMEOUT and the socket is destroyed; from then on no notification
\* changes that outcome or reaches a handler of the connect.
C2_ConnectTimeout ==
  [][ /\ ( /\ op.kind = "connect" /\ Pending /\ op.ms # 0
           /\ Notification /\ notified'.ev = "timeout" )
         => ( /\ op' = [op EXCEPT !.state = "rejected",
                                  !.err = JsError("ECONNECTTIMEOUT")]
              /\ destroyed' )
      /\ ( /\ op.kind = "connect" /\ op.err = JsError("ECONNECTTIMEOUT")
           /\ op'.id = op.id )
         => (op' = op /\ late' = 0 /\ destroyed')
      /\ ( /\ call.pc = "done" /\ call.err = JsError("ECONNECTTIMEOUT")
           /\ call'.status # "pending" )
         => call' = call ]_vars

\* C2's case: the connect timed out, the caller saw ECONNECTTIMEOUT, and a
\* connect notification came afterwards.
C2_Witness ==
  /\ op.kind = "connect" /\ op.ms # 0 /\ op.err = JsError("ECONNECTTIMEOUT")
  /\ call.status = "rejected" /\ call.err = JsError("ECONNECTTIMEOUT")
  /\ notified.ev = "connect"
  /\ destroyed

\* Whether a notification is one the pending operation reacts to by settling
CanSettle(o, n, buf) ==
  \/ n.ev \in Terminal
  \/ o.kind = "connect" /\ n.ev = "connect"
  \/ o.kind = "read" /\ n.ev = "data" /\ Holds(o.cb, buf)

\* C3: an operation is settled by the first notification that can settle it
\* and by no other; once settled, its outcome never changes and none of its
\* handlers is called again.
C3_SettledOnce ==
  /\ [](late = 0)
  /\ [][ /\ (Pending /\ Notification /\ CanSettle(op, notified', chunks'))
            => (op'.id = op.id /\ op'.state \in {"resolved", "rejected"})
         /\ (Pending /\ Notification /\ ~CanSettle(op, notified', chunks'))
            => op' = op
         /\ (Settled /\ op'.id = op.id) => op' = op ]_vars

\* C3's case: a connect was resolved by its connect notification and a close
\* notification came later.
C3_Witness ==
  /\ op.kind = "connect" /\ op.state = "resolved"
  /\ notified.ev = "close"
  /\ error = JsError("ESOCKETCLOSED")

\* The error the claim gives for a terminal notification n ending operation o
TerminalError(o, n) ==
  CASE n.ev = "error" -> n.err
    [] n.ev = "end" -> JsError("EENDFIN")
    [] n.ev = "close" -> JsError("ESOCKETCLOSED")
    [] n.ev = "timeout" -> IF o.kind = "connect" THEN JsError("ECONNECTTIMEOUT")
                           ELSE JsError("ESOCKETTIMEOUT")

\* C4: a pending operation ended by a terminal notification rejects with that
\* notification's error (the stream's error, EENDFIN, ESOCKETCLOSED,
\* ECONNECTTIMEOUT for a connect and ESOCKETTIMEOUT for a read), and that is
\* the error the awaiting caller gets.
C4_TerminalErrors ==
  [][ /\ (Pending /\ Notification /\ notified'.ev \in Terminal)
         => (op'.state = "rejected" /\ op'.err = TerminalError(op, notified'))
      /\ (call.status = "pending" /\ call'.status = "rejected")
         => call'.err = op.err ]_vars

\* C4's case: a read ended by a timeout notification, seen by the caller.
C4_Witness ==
  /\ op.kind = "read" /\ op.state = "rejected"
  /\ notified.ev = "timeout"
  /\ call.status = "rejected" /\ call.err = JsError("ESOCKETTIMEOUT")

\* C5: when readAndClearAsync resumes, the buffer is still the value
\* readAsync resolved with; it returns that value and removes exactly it from
\* the front of the buffer, so that, spliceChunks not being called otherwise,
\* the values returned so far followed by the buffer are the bytes received.
C5_ReadAndClear ==
  /\ []( (call.pc = "readAndClear" /\ op.state = "resolved") => op.value = chunks )
  /\ []( Cardinality(removed) = Len(returned) => returned \o chunks = received )
  /\ [][ ( /\ call.pc = "readAndClear" /\ call'.status = "resolved" )
         => ( /\ call'.value = op.value
              /\ call'.value \o chunks' = chunks
              /\ Len(chunks') = Len(chunks) - Len(call'.value)
              /\ returned' = returned \o call'.value ) ]_vars

\* C5's case: a second readAndClearAsync has returned, after data was
\* delivered before and between the two calls.
C5_Witness ==
  /\ call.name = "readAndClearAsync" /\ call.status = "resolved"
  /\ call.value # <<>>
  /\ Len(returned) > Len(call.value)
  /\ returned = received
  /\ chunks = <<>>

\* C6: readAsync resolves at call time exactly when the buffer is non-empty
\* and the callback holds on it, after a data notification exactly when the
\* callback holds on the buffer with the chunk appended, and at no other
\* step; it resolves with the whole buffer of that moment.
C6_ReadResolves ==
  [][ /\ ReadStarts
         => IF Len(chunks) # 0 /\ Holds(op'.cb, chunks)
            THEN op'.state = "resolved" /\ op'.value = chunks
            ELSE op'.state = "pending"
      /\ (op.kind = "read" /\ Pending /\ Notification /\ notified'.ev = "data")
         => /\ chunks' = chunks \o notified'.data
            /\ IF Holds(op.cb, chunks \o notified'.data)
               THEN op'.state = "resolved" /\ op'.value = chunks \o notified'.data
               ELSE op' = op
      /\ ( /\ op.kind = "read" /\ Pending /\ op'.id = op.id
           /\ ~(Notification /\ notified'.ev = "data") )
         => op'.state # "resolved" ]_vars

\* C6's case: a read whose callback was false on the first chunk alone has
\* resolved with both chunks once the second arrived.
C6_Witness ==
  /\ op.kind = "read" /\ op.cb = "length>1" /\ op.state = "resolved"
  /\ op.value = <<7, 7>>
  /\ received = <<7, 7>>

\* The bytes received whose positions no spliceChunks call removed
Remaining == [k \in 1..Len(Surviving) |-> received[Surviving[k]]]

\* C7: the receive buffer is always the bytes delivered by data
\* notifications, in order, without the ranges spliceChunks calls removed.
C7_BufferIsReceived == chunks = Remaining

\* C7's case: data arrived with no read pending, part of it was spliced out
\* and more data arrived.
C7_Witness ==
  /\ op.kind = "none"
  /\ removed # {}
  /\ chunks # <<>>
  /\ notified.ev = "data"
  /\ Len(received) > Len(splice.before)

C9_SpliceRoundTrip ==
  LET X == splice.before
      s == IF Len(splice.args) >= 1 THEN splice.args[1] ELSE 0
      e == IF Len(splice.args) >= 2 THEN splice.args[2] ELSE Len(X)
  IN /\ (0 <= s /\ s <= e /\ e <= Len(X))
        => /\ splice.ret = SubSeq(X, s + 1, e)
           /\ splice.after = SubSeq(X, 1, s) \o SubSeq(X, e + 1, Len(X))
           /\ SubSeq(X, 1, s) \o splice.ret \o SubSeq(X, e + 1, Len(X)) = X
     /\ splice.args = <<>> => (splice.ret = X /\ splice.after = <<>>)

\* C9's case: a buffer made of two deliveries, spliced inside and spliced
\* whole with the default arguments.
C9_Witness ==
  /\ splice.before = <<7, 8, 9>>
  /\ received = <<7, 8, 9>>
  /\ splice.args = <<1, 2>>
  /\ splice.ret = <<8>>

C9_WitnessDefault ==
  /\ splice.before = <<7, 8, 9>>
  /\ splice.args = <<>>
  /\ splice.ret = <<7, 8, 9>>

\* Whether the tokens of sub occur in m, in a row
Contains(m, sub) ==
  \E i \in 0..(Len(m) - Len(sub)) : SubSeq(m, i + 1, i + Len(sub)) = sub

\* C1: connectAsync with options.proxy rejects only with a ProxyError, whose
\* message contains the message of the error that made it fail (the failed
\* assertion, the rejection of the connect or of a read of the negotiation,
\* the negotiation's own error); without options.proxy it rejects with the
\* connect's error itself, which is no ProxyError.
C1_ProxyErrorIffProxy ==
  call.status = "rejected" =>
    IF call.opts.proxy.given
    THEN /\ call.err.name = "ProxyError"
         /\ call.cause # NoError
         /\ call.cause.message # <<>>
         /\ Contains(call.err.message, call.cause.message)
         /\ op.state = "rejected" => call.cause = op.err
         /\ connects = 0 => call.cause.name = "AssertionError [ERR_ASSERTION]"
    ELSE /\ call.err = op.err
         /\ op.state = "rejected"
         /\ call.err.name # "ProxyError"

\* C1's case: a read of the negotiation timed out and connectAsync rejected
\* with the ProxyError of ESOCKETTIMEOUT.
C1_Witness ==
  /\ call.opts.proxy.given
  /\ call.status = "rejected"
  /\ writes # <<>>
  /\ call.err = Err("ProxyError", <<Txt("Error"), Txt(": "), Txt("ESOCKETTIMEOUT")>>)

\* Other cases of C1: the connect to the proxy refused, a reply the
\* negotiation rejects, a direct connect refused.
C1_WitnessConnect ==
  /\ call.opts.proxy.given /\ call.status = "rejected" /\ writes = <<>>
  /\ call.cause = JsError("connect ECONNREFUSED")
C1_WitnessNegotiation ==
  /\ call.opts.proxy.given /\ call.status = "rejected"
  /\ op.state = "resolved"
  /\ call.cause = JsError(ERROR_MAP[2])
C1_WitnessHttp ==
  /\ call.opts.proxy.given /\ call.status = "rejected"
  /\ op.state = "resolved" /\ op.value = Http407
C1_WitnessDirect ==
  /\ ~call.opts.proxy.given /\ call.status = "rejected"
  /\ call.err = JsError("connect ECONNREFUSED")
C1_WitnessEstablished ==
  /\ call.opts.proxy.given /\ call.status = "resolved" /\ Len(writes) = 3

\* What the claim calls malformed proxy options: a type other than socks5 and
\* http (in any case; none is socks5), no host, or no port
Malformed(proxy) ==
  \/ proxy.type \notin {"", "socks5", "SOCKS5", "http", "HTTP"}
  \/ proxy.host = <<>>
  \/ proxy.port = 0

\* C10: connectAsync with malformed proxy options is rejected without any
\* I/O: no connect is issued, nothing is written, and no listener, timeout or
\* pending operation is put on the socket.
C10_MalformedProxyFailsFast ==
  (call.opts.proxy.given /\ Malformed(call.opts.proxy)) =>
     /\ call.status = "rejected"
     /\ connects = 0
     /\ writes = <<>>
     /\ listeners = Persistent
     /\ timeout = Undefined
     /\ op = NoOp

\* C10's case: connectAsync was rejected for a proxy that has a host and no
\* port, on a socket that also got a connect notification.
C10_Witness ==
  /\ call.opts.proxy.given /\ call.opts.proxy.port = 0
  /\ call.opts.proxy.host # <<>>
  /\ call.status = "rejected"
  /\ notified.ev = "connect"

\* C11: whenever the terminal error is set, the socket was destroyed or is
\* closed; every timeout, error and end notification, with or without an
\* operation pending, leaves the socket destroyed.
C11_ErrorImpliesDestroyed ==
  /\ [](error # NoError => (destroyed \/ closed))
  /\ [][ (Notification /\ notified'.ev \in {"timeout", "error", "end"})
          => (destroyed' /\ error' # NoError) ]_vars

\* C11's case: an end notification came while no operation was pending and
\* no close has come yet.
C11_Witness ==
  /\ ~Pending
  /\ notified.ev = "end"
  /\ error = JsError("EENDFIN")
  /\ destroyed /\ ~closed

\* Another case of C11: a timeout ended a pending read of a negotiation.
C11_WitnessPending ==
  /\ op.kind = "read" /\ op.err = JsError("ESOCKETTIMEOUT")
  /\ notified.ev = "timeout"
  /\ error = JsError("ESOCKETTIMEOUT")
  /\ destroyed /\ ~closed

\* The error the constructor's handler of a terminal notification records
Recorded(n) ==
  CASE n.ev = "error" -> n.err
    [] n.ev = "end" -> JsError("EENDFIN")
    [] n.ev = "close" -> JsError("ESOCKETCLOSED")
    [] n.ev = "timeout" -> JsError("ESOCKETTIMEOUT")

\* C20: the terminal error is null until the first timeout, error, end or
\* close notification, which sets it; once set, no step changes it.
C20_ErrorWriteOnce ==
  /\ [](nEvents = 0 => error = NoError)
  /\ [][ /\ error # NoError => error' = error
         /\ (error = NoError /\ Notification /\ notified'.ev \in Terminal)
            => error' = Recorded(notified')
         /\ (error = NoError /\ ~(Notification /\ notified'.ev \in Terminal))
            => error' = NoError ]_vars

\* C20's case: the error of an error notification is still the terminal
\* error after the close and the data notification that followed it.
C20_Witness ==
  /\ error = JsError("connect ECONNREFUSED")
  /\ closed
  /\ notified.ev = "data"

\* A read that was issued after the terminal error was recorded
ReadAfterError == op.kind = "read" /\ Pending /\ error # NoError

\* C12: an end, close or error notification that comes while no operation is
\* pending records the terminal error and settles nothing; a readAsync
\* issued after it eventually rejects.
C12_ReadAfterErrorRejects ==
  /\ [][ (~Pending /\ Notification /\ notified'.ev \in {"end", "close", "error"})
          => /\ op' = op /\ call' = call
             /\ error' = (IF error = NoError THEN Recorded(notified') ELSE error) ]_vars
  /\ (ReadAfterError ~> op.state = "rejected")

\* What the code does instead: a read without a timeout issued after the close
\* notification is never settled.
C12_ReadAfterCloseStaysPending ==
  [][ (ReadAfterError /\ closed /\ timeout <= 0) => op' = op ]_vars

\* C12's case: close came while no operation was pending, a readAsync without
\* a timeout was issued afterwards on the empty buffer, and it is pending.
C12_Witness ==
  /\ ReadAfterError /\ closed
  /\ error = JsError("ESOCKETCLOSED")
  /\ op.ms = 0 /\ chunks = <<>>
  /\ call.name = "readAsync" /\ call.status = "pending"

\* The caller's call is a connectAsync through a SOCKS5 proxy
Socks5Call ==
  /\ call.name = "connectAsync" /\ call.opts.proxy.given
  /\ ProxyType(call.opts.proxy.type) = "socks5"
  /\ ProxyAssertion(call.opts.proxy) = NoError

\* The three requests of the claim, for the call's options
GreetingRequest == <<5, 2, 0, 2>>
AuthRequest == AuthInfo(call.opts.proxy.username, call.opts.proxy.password)
TargetRequest == TargetInfo(call.opts.host, call.opts.port)
\* The writes of a whole negotiation, with and without authentication
Requests(auth) ==
  <<GreetingRequest>> \o (IF auth THEN <<AuthRequest>> ELSE <<>>) \o <<TargetRequest>>
IsPrefix(a, b) == Len(a) <= Len(b) /\ SubSeq(b, 1, Len(a)) = a

\* The replies the claims call valid, per step
GreetingValid(r) == Len(r) = 2 /\ r[1] = 5 /\ r[2] \in {0, 2}
AuthValid(r) == r = <<1, 0>>
TargetValid(r) == Len(r) >= 2 /\ r[1] = 5 /\ r[2] = 0
\* The negotiation resumes at pc having met an anomaly: the awaited connect
\* or read was rejected, or the reply read is not valid
Anomaly ==
  /\ MicrotaskPending
  /\ \/ op.state = "rejected"
     \/ call.pc = "socks5.greeting" /\ ~GreetingValid(op.value)
     \/ call.pc = "socks5.auth" /\ ~AuthValid(op.value)
     \/ call.pc = "socks5.target" /\ ~TargetValid(op.value)

\* C13: the writes of a SOCKS5 negotiation are a prefix of greeting, auth
\* request (if and only if the greeting's reply chose method 2), target
\* request; each is written when the previous step's connect or reply was
\* resolved and valid; at an anomaly the call rejects and nothing is written;
\* the call resolves only on a target reply 05 00, and nothing is written
\* once it is settled.
C13_Socks5Writes ==
  /\ [](Socks5Call => \E auth \in BOOLEAN : IsPrefix(writes, Requests(auth)))
  /\ [][ Socks5Call =>
          /\ writes' # writes =>
               /\ call.status = "pending" /\ op.state = "resolved" /\ ~Anomaly
               /\ CASE call.pc = "proxy.connect" ->
                         op.kind = "connect" /\ writes' = <<GreetingRequest>>
                    [] call.pc = "socks5.greeting" ->
                         /\ op.value[2] = 2 => writes' = <<GreetingRequest, AuthRequest>>
                         /\ op.value[2] = 0 => writes' = <<GreetingRequest, TargetRequest>>
                    [] call.pc = "socks5.auth" ->
                         writes' = <<GreetingRequest, AuthRequest, TargetRequest>>
                    [] OTHER -> FALSE
          /\ (Anomaly /\ call' # call) => (call'.status = "rejected" /\ writes' = writes)
          /\ (call.status = "pending" /\ call'.status = "resolved")
               => /\ call.pc = "socks5.target" /\ op.state = "resolved"
                  /\ TargetValid(op.value)
                  /\ writes' = writes
          /\ call.status \in {"resolved", "rejected"} => writes' = writes ]_vars

\* C13's case: the proxy chose method 2 and the negotiation resolved after
\* its three requests and the reply 05 00 00 01 00 00 00 00 00 00.
C13_Witness ==
  /\ Socks5Call /\ call.status = "resolved"
  /\ writes = Requests(TRUE)
  /\ op.value = TargetReply

\* Another case of C13: the negotiation was rejected after the greeting alone
C13_WitnessAnomaly ==
  /\ Socks5Call /\ call.status = "rejected"
  /\ writes = <<GreetingRequest>>
  /\ op.state = "resolved" /\ op.value = <<5, 9>>

\* The call c was rejected, wrapped, for an Error whose message starts with text
FailedWith(c, text) ==
  /\ c.status = "rejected"
  /\ c.cause.name = "Error" /\ c.cause.message[1] = Txt(text)
  /\ c.err.name = "ProxyError" /\ Contains(c.err.message, c.cause.message)
\* The negotiation resumes at pc with the data its read resolved with
Replied(pc) ==
  Socks5Call /\ MicrotaskPending /\ call.pc = pc /\ op.state = "resolved" /\ call' # call

\* C16: the greeting step passes exactly on a 2-byte reply 05 00 or 05 02,
\* the authentication step exactly on 01 00; otherwise the negotiation fails
\* with the byte-count error, else the version error, else the
\* unsupported-method or authentication-failure error.
C16_GreetingAndAuthReplies ==
  [][ /\ Replied("socks5.greeting") =>
           LET r == op.value
           IN IF Len(r) # 2
              THEN FailedWith(call', "Unexpected number of bytes received.")
              ELSE IF r[1] # 5
              THEN FailedWith(call', "Unexpected socks version number: ")
              ELSE IF r[2] \notin {0, 2}
              THEN FailedWith(call', "Unexpected socks authentication method: ")
              ELSE /\ call'.status = "pending"
                   /\ call'.pc = (IF r[2] = 2 THEN "socks5.auth" ELSE "socks5.target")
      /\ Replied("socks5.auth") =>
           LET r == op.value
           IN IF Len(r) # 2
              THEN FailedWith(call', "Unexpected number of bytes received.")
              ELSE IF r[1] # 1
              THEN FailedWith(call', "Unexpected authentication method code: ")
              ELSE IF r[2] # 0
              THEN FailedWith(call', "Username and password authentication failure: ")
              ELSE call'.status = "pending" /\ call'.pc = "socks5.target" ]_vars

\* C16's case: the authentication's reply was the single byte 05, and the
\* negotiation failed with the byte-count error, not the version error.
C16_Witness ==
  /\ Socks5Call /\ writes = <<GreetingRequest, AuthRequest>>
  /\ op.state = "resolved" /\ op.value = <<5>>
  /\ FailedWith(call, "Unexpected number of bytes received.")

\* Other cases of C16: a 10-byte reply to the greeting; the reply 01 01 to
\* the authentication.
C16_WitnessGreeting ==
  /\ Socks5Call /\ writes = <<GreetingRequest>>
  /\ op.value = TargetReply
  /\ FailedWith(call, "Unexpected number of bytes received.")
C16_WitnessAuthFailure ==
  /\ Socks5Call /\ writes = <<GreetingRequest, AuthRequest>>
  /\ op.value = <<1, 1>>
  /\ FailedWith(call, "Username and password authentication failure: ")

\* C15: the target reply fails with the version error when byte 0 is not 05,
\* succeeds when it starts 05 00, fails with the table's message for a code
\* 1..8 in byte 1 and with the unknown-failure message otherwise, whatever
\* follows the two bytes; every failure is a ProxyError.
C15_TargetReply ==
  [][ Replied("socks5.target") =>
        LET r == op.value
        IN IF r[1] # 5
           THEN FailedWith(call', "Unexpected SOCKS version number: ")
           ELSE IF Len(r) >= 2 /\ r[2] = 0
           THEN call'.status = "resolved"
           ELSE IF Len(r) >= 2 /\ r[2] \in 1..8
           THEN FailedWith(call', ERROR_MAP[r[2]])
           ELSE FailedWith(call', "unknown error, connecting to the target address failed: ")
    ]_vars

\* C15's case: the reply 05 02 to the target request failed the negotiation
\* with the table's message for code 2, as a ProxyError.
C15_Witness ==
  /\ Socks5Call /\ writes = Requests(FALSE)
  /\ op.state = "resolved" /\ op.value = <<5, 2>>
  /\ call.cause = JsError(ERROR_MAP[2])
  /\ call.err = ProxyError(JsError(ERROR_MAP[2]))

\* Other cases of C15: a code outside the table, a single byte, a wrong
\* version, and a 10-byte reply that succeeds.
C15_WitnessUnknown ==
  /\ Socks5Call /\ writes = Requests(FALSE) /\ op.value = <<5, 9>>
  /\ FailedWith(call, "unknown error, connecting to the target address failed: ")
C15_WitnessOneByte ==
  /\ Socks5Call /\ writes = Requests(FALSE) /\ op.value = <<5>>
  /\ FailedWith(call, "unknown error, connecting to the target address failed: ")
C15_WitnessVersion ==
  /\ Socks5Call /\ writes = Requests(FALSE) /\ op.value = <<1, 0>>
  /\ FailedWith(call, "Unexpected SOCKS version number: ")
C15_WitnessSuccess ==
  /\ Socks5Call /\ writes = Requests(FALSE) /\ op.value = TargetReply
  /\ call.status = "resolved"

\* What a proxy sends for a successful negotiation, in order: the greeting's
\* reply, the authentication's reply if method 2 was chosen, the target reply
HandshakeReplies(auth) ==
  <<5, IF auth THEN 2 ELSE 0>> \o (IF auth THEN <<1, 0>> ELSE <<>>) \o TargetReply
\* The bytes of the stream that belong to the tunnel
IsTunnelByte(b) == b = TunnelByte
TunnelBytes(bytes) == SelectSeq(bytes, IsTunnelByte)
\* The stream so far is that of a proxy which sends the replies of a
\* successful negotiation and then tunnel bytes, however the bytes were
\* divided into data notifications
WellBehavedProxy ==
  \E auth \in BOOLEAN :
     LET h == HandshakeReplies(auth)
     IN \/ IsPrefix(received, h)
        \/ /\ IsPrefix(h, received)
           /\ \A i \in (Len(h) + 1)..Len(received) : received[i] = TunnelByte

\* C14: when the negotiation has resolved, for every division of the proxy's
\* bytes into data notifications, the receive buffer holds no byte of the
\* handshake replies and holds exactly the tunnel's bytes received.
C14_BufferHoldsTunnelBytes ==
  (Socks5Call /\ call.status = "resolved" /\ WellBehavedProxy)
     => chunks = TunnelBytes(received)

\* What the code does instead: a negotiation step takes the first data
\* delivery for the whole reply and then empties the buffer, whatever it holds.
C14_StepEmptiesBuffer ==
  [][ (Socks5Call /\ MicrotaskPending /\ op.state = "resolved" /\ call' # call
         /\ call.pc \in {"socks5.greeting", "socks5.auth", "socks5.target"})
        => chunks' = <<>> ]_vars

\* C14's case: the target reply came as 05 00 and then its other 8 bytes; the
\* negotiation resolved on the first part and the rest is in the buffer.
C14_Witness ==
  /\ Socks5Call /\ call.status = "resolved"
  /\ received = <<5, 0>> \o TargetReply
  /\ chunks = SubSeq(TargetReply, 3, 10)

\* C14's other case: the target reply and a tunnel byte came in one data
\* notification; the negotiation resolved and the tunnel byte is gone.
C14_WitnessCoalesced ==
  /\ Socks5Call /\ call.status = "resolved"
  /\ received = <<5, 0>> \o TargetReply \o <<TunnelByte>>
  /\ chunks = <<>>

\* The caller's call is a connectAsync through an HTTP proxy
HttpCall ==
  /\ call.name = "connectAsync" /\ call.opts.proxy.given
  /\ ProxyType(call.opts.proxy.type) = "http"
  /\ ProxyAssertion(call.opts.proxy) = NoError

\* The request of the claim, written out for the call's options
HttpRequest ==
  \* "CONNECT ", the host, ":80 HTTP/1.1\r\n"
  <<67, 79, 78, 78, 69, 67, 84, 32>> \o call.opts.host.text
  \o <<58, 56, 48, 32, 72, 84, 84, 80, 47, 49, 46, 49, 13, 10>>
  \* "Connection: keep-alive\r\nContent-Length: 0\r\n"
  \o <<67, 111, 110, 110, 101, 99, 116, 105, 111, 110, 58, 32, 107, 101, 101, 112, 45, 97, 108, 105, 118, 101, 13, 10, 67, 111, 110, 116, 101, 110, 116, 45, 76, 101, 110, 103, 116, 104, 58, 32, 48, 13, 10>>
  \* "Proxy-Authorization: Basic ", base64 of "u:pw" or of "u:", "\r\n"
  \o (IF call.opts.proxy.username # <<>>
      THEN <<80, 114, 111, 120, 121, 45, 65, 117, 116, 104, 111, 114, 105, 122, 97, 116, 105, 111, 110, 58, 32, 66, 97, 115, 105, 99, 32>>
           \o (IF call.opts.proxy.password # <<>>
               THEN <<100, 84, 112, 119, 100, 119, 61, 61>>
               ELSE <<100, 84, 111, 61>>)
           \o <<13, 10>>
      ELSE <<>>)
  \o <<13, 10>>

\* str starts with prefix, letters compared without case
StartsWithIgnoringCase(str, prefix) ==
  /\ Len(str) >= Len(prefix)
  /\ \A i \in 1..Len(prefix) : LowerCaseChar(str[i]) = LowerCaseChar(prefix[i])
\* str starts with "HTTP/1.0 200" or "HTTP/1.1 200", whatever the case
StartsWithStatus200(str) ==
  \/ StartsWithIgnoringCase(str, <<72, 84, 84, 80, 47, 49, 46, 48, 32, 50, 48, 48>>)
  \/ StartsWithIgnoringCase(str, <<72, 84, 84, 80, 47, 49, 46, 49, 32, 50, 48, 48>>)

\* C17: the HTTP CONNECT negotiation writes one request, with the
\* Proxy-Authorization header if and only if a username is configured, and
\* nothing else; resumed with the first data delivered, it resolves if and
\* only if the trimmed data starts, without regard to case, with
\* "HTTP/1.0 200" or "HTTP/1.1 200"; otherwise it rejects with an error whose
\* message includes the trimmed response.
C17_HttpConnect ==
  /\ [](HttpCall => writes \in {<<>>, <<HttpRequest>>})
  /\ [][ (HttpCall /\ MicrotaskPending /\ call.pc = "http.reply" /\ call' # call)
          => /\ writes = <<HttpRequest>> /\ writes' = writes
             /\ op.state = "resolved" =>
                  LET str == Trim(op.value)
                  IN IF StartsWithStatus200(str)
                     THEN call'.status = "resolved"
                     ELSE /\ call'.status = "rejected"
                          /\ Contains(call'.cause.message, <<Raw(str)>>)
                          /\ call'.err.name = "ProxyError"
                          /\ Contains(call'.err.message, <<Raw(str)>>)
             /\ op.state = "rejected" => call'.status = "rejected" ]_vars
  /\ [][ (HttpCall /\ call.status # "pending") => writes' = writes ]_vars

\* C17's case: the proxy answered 407 to a request that carried the
\* Proxy-Authorization header, and the call was rejected with the response
\* in the message.
C17_Witness ==
  /\ HttpCall /\ call.opts.proxy.username # <<>>
  /\ writes = <<HttpRequest>>
  /\ op.value = Http407
  /\ call.status = "rejected"
  /\ Contains(call.err.message, <<Raw(Trim(Http407))>>)

\* Other cases of C17: a lower-case HTTP/1.0 answer after leading white space
\* resolves; a request without a username carries no Proxy-Authorization.
C17_WitnessLowerCase ==
  /\ HttpCall /\ op.value = Http200LowerCase /\ call.status = "resolved"
C17_WitnessIndented ==
  /\ HttpCall /\ op.value = Http200Indented /\ call.status = "resolved"
C17_WitnessNoUsername ==
  /\ HttpCall /\ call.opts.proxy.username = <<>> /\ call.opts.proxy.password # <<>>
  /\ writes = <<HttpRequest>>
  /\ Len(HttpRequest) = Len(call.opts.host.text) + 67
  /\ call.status = "resolved"

\* A SOCKS5 request as the proxy parses it (RFC 1928, section 4): 05 01 00,
\* the address type, 4 or 16 address bytes or a length and that many bytes,
\* the port in 2 bytes, and nothing more
Unparsed == [ok |-> FALSE, atyp |-> 0, addr |-> <<>>, port |-> 0]
ParseTarget(req) ==
  IF Len(req) < 5 \/ SubSeq(req, 1, 3) # <<5, 1, 0>> \/ req[4] \notin {1, 3, 4}
  THEN Unparsed
  ELSE LET n == CASE req[4] = 1 -> 4 [] req[4] = 4 -> 16 [] OTHER -> req[5]
           start == IF req[4] = 3 THEN 6 ELSE 5
       IN IF Len(req) # start + n + 1 THEN Unparsed
          ELSE [ok |-> TRUE, atyp |-> req[4],
                addr |-> SubSeq(req, start, start + n - 1),
                port |-> 256 * req[start + n] + req[start + n + 1]]

\* 4 address bytes as a dotted quad
FormatIpv4(addr) ==
  NumberToString(addr[1], 10) \o <<46>> \o NumberToString(addr[2], 10) \o <<46>>
  \o NumberToString(addr[3], 10) \o <<46>> \o NumberToString(addr[4], 10)

\* The 8 groups of an IPv6 address, as numbers: of 16 address bytes, and of
\* the text, where "::" stands for the groups of zeros that make up 8
RECURSIVE HexNumber(_)
HexNumber(str) ==
  IF str = <<>> THEN 0
  ELSE 16 * HexNumber(SubSeq(str, 1, Len(str) - 1)) + HexValue(str[Len(str)])
GroupsOfBytes(addr) == [i \in 1..8 |-> 256 * addr[2 * i - 1] + addr[2 * i]]
NonEmpty(part) == part # <<>>
GroupsOfText(text) ==
  LET parts == Split(text, 58)
      gap == {i \in 1..Len(parts) : parts[i] = <<>>}
  IN IF gap = {} THEN [i \in 1..Len(parts) |-> HexNumber(parts[i])]
     ELSE LET first == CHOOSE i \in gap : \A j \in gap : i <= j
              before == SubSeq(parts, 1, first - 1)
              after == SelectSeq(SubSeq(parts, first + 1, Len(parts)), NonEmpty)
          IN [i \in 1..Len(before) |-> HexNumber(before[i])]
             \o [i \in 1..(8 - Len(before) - Len(after)) |-> 0]
             \o [i \in 1..Len(after) |-> HexNumber(after[i])]

\* The request has the layout of the host's class, and parsing it gives the
\* host and the port back
Invertible(host, port, req) ==
  LET parsed == ParseTarget(req)
  IN /\ SubSeq(req, 1, 3) = <<5, 1, 0>>
     /\ req[4] = (CASE host.ip = 4 -> 1 [] host.ip = 6 -> 4 [] OTHER -> 3)
     /\ Len(req) = (CASE host.ip = 4 -> 4 + 4 + 2
                      [] host.ip = 6 -> 4 + 16 + 2
                      [] OTHER -> 4 + 1 + Len(host.text) + 2)
     /\ parsed.ok /\ parsed.port = port
     /\ CASE host.ip = 4 -> FormatIpv4(parsed.addr) = host.text
          [] host.ip = 6 -> GroupsOfBytes(parsed.addr) = GroupsOfText(host.text)
          [] OTHER -> parsed.addr = host.text

\* The target request was written (the greeting's reply chose no
\* authentication, so it is the second write)
TargetWritten == Socks5Call /\ Len(writes) = 2

\* C18: for every host of each address class and every port, the target
\* request is 05 01 00, the type of the class, 4 or 16 address bytes or a
\* length and the name, and the port in 2 bytes, high byte first; parsing it
\* as a proxy does gives the host and the port back.
C18_TargetRequestInvertible ==
  TargetWritten => Invertible(call.opts.host, call.opts.port, writes[2])

\* What the code does: the claim's statement holds for names, IPv4 addresses
\* and IPv6 addresses written as 8 groups; an IPv6 address written with "::"
\* gets 2 address bytes for each part between colons, fewer than 16.
Compressed(host) == host.ip = 6 /\ Len(Split(host.text, 58)) # 8
C18_EightGroupFormsInvertible ==
  TargetWritten =>
     IF Compressed(call.opts.host)
     THEN Len(writes[2]) = 4 + 2 * Len(Split(call.opts.host.text, 58)) + 2
     ELSE Invertible(call.opts.host, call.opts.port, writes[2])

\* C18's case: the target "::1", port 443; the request written is
\* 05 01 00 04 00 00 00 00 00 01 01 bb, with 6 address bytes.
C18_Witness ==
  /\ TargetWritten
  /\ call.opts.host.text = <<58, 58, 49>> /\ call.opts.port = 443
  /\ writes[2] = <<5, 1, 0, 4, 0, 0, 0, 0, 0, 1, 1, 187>>

\* Another case of C18: an IPv6 address of 8 groups and port 65535 give 16
\* address bytes and a request that parses back.
C18_WitnessEightGroups ==
  /\ TargetWritten
  /\ call.opts.host.ip = 6 /\ ~Compressed(call.opts.host) /\ call.opts.port = 65535
  /\ Len(writes[2]) = 22
  /\ ParseTarget(writes[2]).port = 65535
  /\ GroupsOfBytes(ParseTarget(writes[2]).addr)
       = <<4176, 0, 0, 0, 5, 1536, 12300, 12907>>

\* The caller's call is a connectAsync through a proxy whose options passed
\* the assertions
ProxiedCall ==
  /\ call.name = "connectAsync" /\ call.opts.proxy.given
  /\ ProxyAssertion(call.opts.proxy) = NoError

\* C19: a connectAsync through a proxy always eventually settles; in
\* particular, while the connection to the proxy is up, a negotiation read
\* that is pending does not stay pending forever.
C19_ProxiedConnectSettles ==
  (ProxiedCall /\ call.status = "pending" /\ op.kind = "read" /\ Pending
     /\ ~destroyed /\ ~closed)
    ~> (call.status # "pending" \/ destroyed \/ closed)

\* C19 as the code has it: unless the proxy timeout given is 0, the connect to
\* the proxy and every read of the negotiation run under the proxy timeout
\* (10000 when none is given), the call eventually settles, and a read of
\* the negotiation that times out rejects it with a ProxyError of
\* ESOCKETTIMEOUT.
C19_TimedProxiedConnectSettles ==
  /\ [](ProxiedCall /\ Pending /\ ~destroyed /\ call.opts.proxy.timeout # 0
          => timeout = (IF call.opts.proxy.timeout = Undefined
                        THEN 10000 ELSE call.opts.proxy.timeout))
  /\ [][ (ProxiedCall /\ MicrotaskPending /\ call' # call
            /\ op.kind = "read" /\ notified.ev = "timeout")
          => /\ call'.status = "rejected"
             /\ call'.cause = JsError("ESOCKETTIMEOUT")
             /\ call'.err = ProxyError(JsError("ESOCKETTIMEOUT")) ]_vars
  /\ (ProxiedCall /\ call.status = "pending" /\ call.opts.proxy.timeout # 0)
        ~> (call.status # "pending")

\* C19's case: the proxy accepted the connection and sent nothing; with no
\* proxy timeout given the read of the greeting's reply timed out and the
\* call was rejected with a ProxyError of ESOCKETTIMEOUT.
C19_Witness ==
  /\ ProxiedCall /\ call.opts.proxy.timeout = Undefined
  /\ writes = <<GreetingRequest>> /\ received = <<>>
  /\ notified.ev = "timeout"
  /\ call.status = "rejected"
  /\ call.err = ProxyError(JsError("ESOCKETTIMEOUT"))

\* The case C19 leaves out: with the proxy timeout 0 the proxy accepted the
\* connection, the greeting was written, no timer is set and the read is
\* pending.
C19_WitnessUntimed ==
  /\ ProxiedCall /\ call.opts.proxy.timeout = 0
  /\ writes = <<GreetingRequest>> /\ received = <<>>
  /\ Pending /\ op.kind = "read" /\ timeout = 0
  /\ ~destroyed /\ ~closed

====
